---- MODULE Spec2Model ----
(***************************************************************************)
(* Model of s3_public_file.py: one run of main() from the call of          *)
(* S3PublicManager.make_objects_public to the end of the process, with the *)
(* ProgressDisplay animation thread running beside the main thread.        *)
(*                                                                         *)
(* Object keys are sequences of one-character strings, so that prefix      *)
(* matching, the '/' delimiter and endswith('/') are computed.             *)
(***************************************************************************)
EXTENDS Integers, Sequences, FiniteSets, TLC

\* ------------------------------------------------------------------ bounds
\* Largest number of keys stored in the bucket.
MaxBucket == 3
\* Largest number of entries the store puts in one listing page.
MaxPageSize == 2
\* The animation-frame counter saturates here.
MaxFrames == 2

\* Calls made on a ProgressDisplay driven by an arbitrary caller.
MaxCalls == 4

\* Largest total_files such a caller passes to start().
MaxTotal == 2

\* ------------------------------------------------------------------ keys
Slash == "/"
None == "None"

KeyDir == <<"a", "/">>
KeyAX == <<"a", "/", "x">>
KeyABY == <<"a", "/", "b", "/", "y">>
KeyZ == <<"z">>
Universe == {KeyDir, KeyAX, KeyABY, KeyZ}

PrefixEmpty == <<>>
PrefixA == <<"a", "/">>
PrefixMissing == <<"m", "/">>
Prefixes == {PrefixEmpty, PrefixA, PrefixMissing}

\* Code points of the characters used, for the store's lexicographic order.
CharCode(c) ==
    CASE c = "/" -> 47
      [] c = "a" -> 97
      [] c = "b" -> 98
      [] c = "m" -> 109
      [] c = "x" -> 120
      [] c = "y" -> 121
      [] c = "z" -> 122

RECURSIVE LexLess(_, _)
LexLess(s, t) ==
    IF s = <<>> THEN t # <<>>
    ELSE IF t = <<>> THEN FALSE
    ELSE IF Head(s) = Head(t) THEN LexLess(Tail(s), Tail(t))
    ELSE CharCode(Head(s)) < CharCode(Head(t))

RECURSIVE SortKeys(_)
SortKeys(S) ==
    IF S = {} THEN <<>>
    ELSE LET m == CHOOSE k \in S : \A j \in S : j = k \/ LexLess(k, j)
         IN  <<m>> \o SortKeys(S \ {m})

\* str.startswith
StartsWith(k, p) ==
    /\ Len(p) <= Len(k)
    /\ SubSeq(k, 1, Len(p)) = p

\* str.endswith('/')
EndsWithSlash(k) == Len(k) > 0 /\ k[Len(k)] = Slash

HasSlash(s) == \E n \in DOMAIN s : s[n] = Slash

\* Index of the last '/' of s, 0 when there is none (str.rfind + 1).
LastSlash(s) ==
    IF HasSlash(s) THEN CHOOSE n \in DOMAIN s :
                            s[n] = Slash /\ \A m \in DOMAIN s : s[m] = Slash => m <= n
    ELSE 0

FirstSlash(s) ==
    CHOOSE n \in DOMAIN s : s[n] = Slash /\ \A m \in DOMAIN s : s[m] = Slash => n <= m

\* os.path.basename
Basename(k) == SubSeq(k, LastSlash(k) + 1, Len(k))

RECURSIVE RStripSlash(_)
RStripSlash(s) ==
    IF EndsWithSlash(s) THEN RStripSlash(SubSeq(s, 1, Len(s) - 1)) ELSE s

\* os.path.dirname: the head up to the last '/', trailing slashes stripped
\* unless the head is made of slashes only.
Dirname(k) ==
    LET head == SubSeq(k, 1, LastSlash(k))
    IN  IF head # <<>> /\ RStripSlash(head) # <<>> THEN RStripSlash(head) ELSE head

\* '/'.join(path.split('/')[:-1]) + '/'
DirPath(path) == SubSeq(path, 1, LastSlash(path) - 1) \o <<Slash>>

SeqToSet(s) == {s[n] : n \in DOMAIN s}

\* ------------------------------------------------------------------ store
\* What the object store answers to list_objects_v2(Bucket, Prefix, Delimiter):
\* the keys starting with Prefix; with a delimiter, a key whose remainder
\* after the prefix holds the delimiter is grouped into a common prefix.
Matching(keys, p) == {k \in keys : StartsWith(k, p)}

Rest(k, p) == SubSeq(k, Len(p) + 1, Len(k))

Grouped(k, p, delim) == delim # None /\ HasSlash(Rest(k, p))

ListedKeys(keys, p, delim) == {k \in Matching(keys, p) : ~Grouped(k, p, delim)}

CommonPrefixOf(k, p) == p \o SubSeq(Rest(k, p), 1, FirstSlash(Rest(k, p)))

CommonPrefixes(keys, p, delim) ==
    {CommonPrefixOf(k, p) : k \in {j \in Matching(keys, p) : Grouped(j, p, delim)}}

\* The listing entries (keys and common prefixes) in lexicographic order.
Entries(keys, p, delim) ==
    SortKeys(ListedKeys(keys, p, delim) \cup CommonPrefixes(keys, p, delim))

NumPages(keys, p, delim, size) ==
    LET n == Len(Entries(keys, p, delim))
    IN  IF n = 0 THEN 1 ELSE (n + size - 1) \div size

\* Page number n (from 1) of the listing: the page holds 'Contents' only when
\* it has keys and 'CommonPrefixes' only when it has grouped prefixes.
StorePage(keys, p, delim, size, n) ==
    LET all == Entries(keys, p, delim)
        lo == (n - 1) * size + 1
        hi == IF n * size < Len(all) THEN n * size ELSE Len(all)
        chunk == SubSeq(all, lo, hi)
        listed == ListedKeys(keys, p, delim)
    IN  [Contents |-> SelectSeq(chunk, LAMBDA e : e \in listed),
         CommonPrefixes |-> SelectSeq(chunk, LAMBDA e : e \notin listed)]

\* ------------------------------------------------------------------ state
VARIABLES
    store,            \* the keys held by the bucket
    prefix,           \* make_objects_public argument
    recursive,        \* make_objects_public argument
    dry_run,          \* make_objects_public argument
    page_size,        \* entries per listing page, chosen by the store
    has_display,      \* self.progress_display is not None
    pc,               \* position of the main thread
    list_phase,       \* which list_objects call is running: "first" or "diag"
    page_params,      \* list_objects: page_params
    page_count,       \* list_objects: page_count
    acc,              \* list_objects: the local list `objects`
    list_ret,         \* value returned by the last list_objects call
    objects,          \* make_objects_public: objects
    all_objects,      \* make_objects_public: all_objects
    unique_prefixes,  \* make_objects_public: unique_prefixes
    file_objects,     \* make_objects_public: file_objects (the WorkBatch)
    dir_markers,      \* make_objects_public: dir_markers
    idx,              \* number of file_objects entries the loop has taken
    success,          \* make_objects_public: success (last make_object_public result)
    success_count,    \* make_objects_public: success_count
    failed_count,     \* make_objects_public: failed_count
    result,           \* the dictionary make_objects_public returns
    returned,         \* make_objects_public has returned
    raised,           \* an exception left make_objects_public
    interrupted,      \* KeyboardInterrupt was raised in the main thread
    exit_status,      \* process exit status, -1 while the process runs
    list_calls,       \* history: the list_objects calls made
    list_returns,     \* history: the values the list_objects calls returned
    requests,         \* history: the listing page requests sent, with outcome
    acl_calls,        \* history: the put_object_acl requests sent, with outcome
    sleeps,           \* history: number of time.sleep(0.1) pacing delays taken
    pd,               \* the ProgressDisplay fields
    pd_events,        \* history: start / update / stop calls on the display
    update_keys,      \* history: the keys passed to update(), in call order
    rpc,              \* position of the animation thread
    frames,           \* spinner_index: frames begun by the animation loop (saturating)
    frame,            \* the counters the animation loop read for its current frame
    summary_count,    \* history: final summaries printed
    frame_after_summary, \* history: a frame was drawn after the final summary
    argv,             \* main: the command line, flag by flag (given or not)
    config,           \* main: config, the loaded configuration dictionary
    environ,          \* main: os.environ, the two credential variables
    eff,              \* main: the values resolved from args, config and environ
    mgr,              \* the S3PublicManager fields service, region, endpoint_url
    url,              \* the last get_public_url call: its arguments and result
    bucket_calls,     \* history: the list_buckets requests sent, with outcome
    ref               \* what an earlier call without a display did, for comparison

setup == <<argv, config, environ, eff, mgr, url, bucket_calls, ref>>
inputs == <<store, prefix, recursive, dry_run, page_size, has_display>>
listing == <<list_phase, page_params, page_count, acc, list_ret>>
locals == <<objects, all_objects, unique_prefixes, file_objects, dir_markers>>
counters == <<idx, success, success_count, failed_count>>
outcome == <<result, returned, raised, interrupted, exit_status>>
history == <<list_calls, list_returns, requests, acl_calls, sleeps>>
display == <<pd, pd_events, update_keys>>
render == <<rpc, frames, frame, summary_count, frame_after_summary>>
vars == <<setup, inputs, pc, listing, locals, counters, outcome, history, display, render>>

\* What a storage call can do: return, raise botocore's ClientError, or raise
\* any other exception (EndpointConnectionError, NoCredentialsError, ...).
Outcomes == {"ok", "ClientError", "OtherError"}

\* ProgressDisplay.__init__
PdInit ==
    [current_file |-> <<>>, current_directory |-> <<>>,
     processed_files |-> 0, total_files |-> 0,
     success_count |-> 0, failed_count |-> 0,
     start_time |-> FALSE, is_running |-> FALSE, stop_animation |-> FALSE]

EmptyResult == [success |-> 0, failed |-> 0, total |-> 0]

\* ------------------------------------------------------------------ values of main
\* A Python value that may be None: strings are sequences of tokens, so ''
\* is <<>>; `some` is FALSE for None (a flag not given, a key not present).
Nothing == [some |-> FALSE, val |-> <<>>]

Some(v) == [some |-> TRUE, val |-> v]

\* Python truth of an optional string: None and '' are false.
Truthy(o) == o.some /\ o.val # <<>>

\* Python's `a or b`: a when it is true, otherwise b, whatever b is.
Or(a, b) == IF Truthy(a) THEN a ELSE b

\* A command line that gives --service, --region, --access-key, --secret-key
\* and --bucket and nothing else.
BaseArgv ==
    [service |-> Some(<<"aws">>), region |-> Some(<<"us-east-1">>),
     access_key |-> Some(<<"AK-cli">>), secret_key |-> Some(<<"SK-cli">>),
     endpoint_url |-> Nothing, bucket |-> Some(<<"bucket1">>),
     prefix |-> Nothing, recursive |-> Nothing, animated_progress |-> Nothing,
     dry_run |-> FALSE, list_buckets |-> FALSE, create_config |-> FALSE]

\* `config = {}`: no --config, or a file load_config could not read.
EmptyConfig ==
    [service |-> Nothing, region |-> Nothing, access_key |-> Nothing,
     secret_key |-> Nothing, endpoint_url |-> Nothing, bucket_name |-> Nothing,
     prefix |-> Nothing, recursive |-> Nothing, animated_progress |-> Nothing]

EmptyEnviron == [AWS_ACCESS_KEY_ID |-> Nothing, AWS_SECRET_ACCESS_KEY |-> Nothing]

\* The resolved values before main has resolved them.
NoEff ==
    [service |-> Nothing, region |-> Nothing, access_key |-> Nothing,
     secret_key |-> Nothing, endpoint_url |-> Nothing, bucket_name |-> Nothing,
     prefix |-> Nothing, recursive |-> TRUE, animated_progress |-> TRUE]

\* No manager has been constructed.
NoManager == [service |-> <<>>, region |-> <<>>, endpoint_url |-> Nothing]

\* get_public_url has not been called.
NoUrl == [bucket_name |-> <<>>, object_key |-> <<>>, value |-> <<>>]

\* No earlier call has been recorded.
NoRef ==
    [done |-> FALSE, list_calls |-> <<>>, requests |-> <<>>, acl_calls |-> <<>>,
     sleeps |-> 0, result |-> EmptyResult, returned |-> FALSE, raised |-> FALSE]

\* The values a frame shows before the animation loop has read anything.
NoFrame == [processed |-> 0, total |-> 0, success |-> 0, failed |-> 0]

\* Nothing has run yet: the locals are unset, the histories empty, the
\* display as ProgressDisplay.__init__ leaves it.
Blank ==
    /\ list_phase = "first"
    /\ page_params = [Prefix |-> <<>>, Delimiter |-> None]
    /\ page_count = 0
    /\ acc = <<>>
    /\ list_ret = <<>>
    /\ objects = <<>>
    /\ all_objects = <<>>
    /\ unique_prefixes = {}
    /\ file_objects = <<>>
    /\ dir_markers = 0
    /\ idx = 0
    /\ success = FALSE
    /\ success_count = 0
    /\ failed_count = 0
    /\ result = EmptyResult
    /\ returned = FALSE
    /\ raised = FALSE
    /\ interrupted = FALSE
    /\ exit_status = -1
    /\ list_calls = <<>>
    /\ list_returns = <<>>
    /\ requests = <<>>
    /\ acl_calls = <<>>
    /\ sleeps = 0
    /\ pd = PdInit
    /\ pd_events = <<>>
    /\ update_keys = <<>>
    /\ rpc = "none"
    /\ frames = 0
    /\ frame = NoFrame
    /\ summary_count = 0
    /\ frame_after_summary = FALSE

\* main has not run: nothing is resolved, no manager exists.
Unconfigured ==
    /\ argv = BaseArgv
    /\ config = EmptyConfig
    /\ environ = EmptyEnviron
    /\ eff = NoEff
    /\ mgr = NoManager
    /\ url = NoUrl
    /\ bucket_calls = <<>>
    /\ ref = NoRef

\* make_objects_public is entered with any bucket and any arguments.
Init ==
    /\ store \in {S \in SUBSET Universe : Cardinality(S) <= MaxBucket}
    /\ prefix \in Prefixes
    /\ recursive \in BOOLEAN
    /\ dry_run \in BOOLEAN
    /\ page_size \in 1..MaxPageSize
    /\ has_display \in BOOLEAN
    /\ pc = "start"
    /\ Blank
    /\ Unconfigured

\* ------------------------------------------------------------------ list_objects
\* Mutant of PageParams: the delimiter is never added.
PageParamsNoDelimiter(p, rec) == [Prefix |-> p, Delimiter |-> None]

\* page_params of a list_objects(bucket, p, rec) call: the delimiter is added
\* only when the call is not recursive.
PageParams(p, rec) ==
    [Prefix |-> p, Delimiter |-> IF rec THEN None ELSE Slash]

\* Mutant of ExtendObjects: the page's objects replace the accumulated list.
ExtendObjectsReplaces(objs, page) ==
    IF page.Contents # <<>> THEN page.Contents ELSE objs

\* The loop body of list_objects for one page: objects.extend(page['Contents'])
\* when the page has 'Contents'; common prefixes are only logged.
ExtendObjects(objs, page) ==
    IF page.Contents # <<>> THEN objs \o page.Contents ELSE objs

\* What list_objects returns when a page request raises ClientError.
ListFailureValue(objs) == <<>>

\* Entry of list_objects(bucket, p, rec).
CallListObjects(phase, p, rec) ==
    /\ list_phase' = phase
    /\ page_params' = PageParams(p, rec)
    /\ page_count' = 0
    /\ acc' = <<>>
    /\ list_calls' = Append(list_calls, [Prefix |-> p, Recursive |-> rec])
    /\ pc' = "list"

\* make_objects_public, first statement: objects = self.list_objects(...)
StartListing ==
    /\ pc = "start"
    /\ CallListObjects("first", prefix, recursive)
    /\ UNCHANGED <<list_ret, list_returns, requests, acl_calls, sleeps>>
    /\ UNCHANGED <<setup, inputs, locals, counters, outcome, display, render>>

PagesOfCall == NumPages(store, page_params.Prefix, page_params.Delimiter, page_size)

\* A page request as the store sees it, with the list_objects call it belongs
\* to and what came of it.
Request(n, o) ==
    [Prefix |-> page_params.Prefix, Delimiter |-> page_params.Delimiter,
     Page |-> n, Outcome |-> o, Call |-> Len(list_calls)]

\* One iteration of `for page in paginator.paginate(**page_params)`: the next
\* page is requested with the same parameters; the request returns the page,
\* raises ClientError (caught: list_objects returns []) or raises something
\* else (not caught in list_objects).
ListPage ==
    /\ pc = "list"
    /\ page_count < PagesOfCall
    /\ \E o \in Outcomes :
        /\ requests' = Append(requests, Request(page_count + 1, o))
        /\ CASE o = "ok" ->
                  /\ page_count' = page_count + 1
                  /\ acc' = ExtendObjects(acc, StorePage(store, page_params.Prefix,
                                page_params.Delimiter, page_size, page_count + 1))
                  /\ UNCHANGED <<pc, list_ret, list_returns, raised>>
             [] o = "ClientError" ->
                  /\ list_ret' = ListFailureValue(acc)
                  /\ list_returns' = Append(list_returns, ListFailureValue(acc))
                  /\ pc' = "list_ret"
                  /\ UNCHANGED <<page_count, acc, raised>>
             [] o = "OtherError" ->
                  /\ raised' = TRUE
                  /\ pc' = "raised"
                  /\ UNCHANGED <<page_count, acc, list_ret, list_returns>>
    /\ UNCHANGED <<list_phase, page_params, list_calls, acl_calls, sleeps>>
    /\ UNCHANGED <<result, returned, interrupted, exit_status>>
    /\ UNCHANGED <<setup, inputs, locals, counters, display, render>>

\* The paginator is exhausted: return objects.
ListReturn ==
    /\ pc = "list"
    /\ page_count = PagesOfCall
    /\ list_ret' = acc
    /\ list_returns' = Append(list_returns, acc)
    /\ pc' = "list_ret"
    /\ UNCHANGED <<list_phase, page_params, page_count, acc>>
    /\ UNCHANGED <<list_calls, requests, acl_calls, sleeps>>
    /\ UNCHANGED <<setup, inputs, locals, counters, outcome, display, render>>

\* ------------------------------------------------------------------ make_objects_public
\* Mutant of FilterFiles: startswith('/') written for endswith('/').
FilterFilesStartsWith(objs) == SelectSeq(objs, LAMBDA k : ~(Len(k) > 0 /\ k[1] = Slash))

\* file_objects = [obj for obj in objects if not obj['Key'].endswith('/')]
FilterFiles(objs) == SelectSeq(objs, LAMBDA k : ~EndsWithSlash(k))

\* unique_prefixes of the diagnostic branch: the directory part of each of the
\* first 20 keys that holds a '/'.
UniquePrefixes(objs) ==
    {DirPath(objs[n]) : n \in {m \in DOMAIN objs : m <= 20 /\ HasSlash(objs[m])}}

\* Mutant of LoopEntry: the dry-run branch is missing.
LoopEntryIgnoresDryRun(dry) == "loop"

\* Branch taken once file_objects is known to hold files: `if dry_run:`.
LoopEntry(dry) == IF dry THEN "dry_loop" ELSE "loop"

\* `if not objects:` is true: the diagnostic call
\* all_objects = self.list_objects(bucket_name, '', recursive=True).
FirstListingEmpty ==
    /\ pc = "list_ret"
    /\ list_phase = "first"
    /\ list_ret = <<>>
    /\ objects' = list_ret
    /\ CallListObjects("diag", <<>>, TRUE)
    /\ UNCHANGED <<all_objects, unique_prefixes, file_objects, dir_markers>>
    /\ UNCHANGED <<list_ret, list_returns, requests, acl_calls, sleeps>>
    /\ UNCHANGED <<setup, inputs, counters, outcome, display, render>>

\* Mutant of DiagnosticReturn: the diagnostic listing becomes the work list.
DiagnosticReturnPublishes ==
    /\ pc = "list_ret"
    /\ list_phase = "diag"
    /\ all_objects' = list_ret
    /\ unique_prefixes' = UniquePrefixes(list_ret)
    /\ file_objects' = FilterFiles(list_ret)
    /\ IF FilterFiles(list_ret) = <<>>
       THEN /\ result' = EmptyResult
            /\ returned' = TRUE
            /\ pc' = "returned"
       ELSE /\ pc' = IF has_display THEN "pd_start" ELSE LoopEntry(dry_run)
            /\ UNCHANGED <<result, returned>>
    /\ UNCHANGED <<objects, dir_markers, raised, interrupted, exit_status>>
    /\ UNCHANGED <<setup, inputs, listing, counters, history, display, render>>

\* The diagnostic listing has returned: log sample paths and prefixes, then
\* return {'success': 0, 'failed': 0, 'total': 0}.
DiagnosticReturn ==
    /\ pc = "list_ret"
    /\ list_phase = "diag"
    /\ all_objects' = list_ret
    /\ unique_prefixes' = UniquePrefixes(list_ret)
    /\ result' = EmptyResult
    /\ returned' = TRUE
    /\ pc' = "returned"
    /\ UNCHANGED <<objects, file_objects, dir_markers, raised, interrupted, exit_status>>
    /\ UNCHANGED <<setup, inputs, listing, counters, history, display, render>>

\* `if not objects:` is false: filter out the directory markers; return the
\* empty result when nothing is left, else go on to the display and the loop.
FilterObjects ==
    /\ pc = "list_ret"
    /\ list_phase = "first"
    /\ list_ret # <<>>
    /\ objects' = list_ret
    /\ file_objects' = FilterFiles(list_ret)
    /\ dir_markers' = Len(list_ret) - Len(FilterFiles(list_ret))
    /\ IF FilterFiles(list_ret) = <<>>
       THEN /\ result' = EmptyResult
            /\ returned' = TRUE
            /\ pc' = "returned"
       ELSE /\ pc' = IF has_display THEN "pd_start" ELSE LoopEntry(dry_run)
            /\ UNCHANGED <<result, returned>>
    /\ UNCHANGED <<all_objects, unique_prefixes, raised, interrupted, exit_status>>
    /\ UNCHANGED <<setup, inputs, listing, counters, history, display, render>>

\* ------------------------------------------------------------------ ProgressDisplay
\* ProgressDisplay.start(total_files), up to the start of the animation thread.
PdStartFields(d, total) ==
    [d EXCEPT !.total_files = total, !.start_time = TRUE, !.is_running = TRUE,
              !.processed_files = 0, !.success_count = 0, !.failed_count = 0]

\* Mutant of PdUpdateFile: the file is counted twice.
PdUpdateFileTwice(d, key) ==
    [d EXCEPT !.current_file = Basename(key), !.current_directory = Dirname(key),
              !.processed_files = d.processed_files + 2]

\* ProgressDisplay.update, first three statements.
PdUpdateFile(d, key) ==
    [d EXCEPT !.current_file = Basename(key), !.current_directory = Dirname(key),
              !.processed_files = d.processed_files + 1]

\* ProgressDisplay.update, the `if success:` statement.
PdUpdateCount(d, ok) ==
    IF ok THEN [d EXCEPT !.success_count = d.success_count + 1]
    ELSE [d EXCEPT !.failed_count = d.failed_count + 1]

\* ProgressDisplay.stop, first two statements.
PdStopFlags(d) == [d EXCEPT !.is_running = FALSE, !.stop_animation = TRUE]

\* self.progress_display.start(len(file_objects)); the animation thread is
\* created and started by _start_rich_display / _start_simple_display.
PdStart ==
    /\ pc = "pd_start"
    /\ pd' = PdStartFields(pd, Len(file_objects))
    /\ pd_events' = Append(pd_events, "start")
    /\ UNCHANGED update_keys
    /\ rpc' = "check"
    /\ pc' = LoopEntry(dry_run)
    /\ UNCHANGED <<frames, frame, summary_count, frame_after_summary>>
    /\ UNCHANGED <<setup, inputs, listing, locals, counters, outcome, history>>

\* ------------------------------------------------------------------ dry-run loop
\* `for obj in file_objects:` of the dry-run branch; after the loop the
\* display is stopped and the result returned.
DryRunResult(n) == [success |-> 0, failed |-> 0, total |-> n]

\* Mutant of DryRunNext: the dry-run branch returns without stopping the
\* display.
DryRunNextNoStop ==
    /\ pc = "dry_loop"
    /\ IF idx < Len(file_objects)
       THEN /\ idx' = idx + 1
            /\ pc' = IF has_display THEN "dry_update" ELSE "dry_loop"
            /\ UNCHANGED <<result, returned>>
       ELSE /\ result' = DryRunResult(Len(file_objects))
            /\ returned' = TRUE
            /\ pc' = "returned"
            /\ UNCHANGED idx
    /\ UNCHANGED <<success, success_count, failed_count, raised, interrupted, exit_status>>
    /\ UNCHANGED <<setup, inputs, listing, locals, history, display, render>>

DryRunNext ==
    /\ pc = "dry_loop"
    /\ IF idx < Len(file_objects)
       THEN /\ idx' = idx + 1
            /\ pc' = IF has_display THEN "dry_update" ELSE "dry_loop"
            /\ UNCHANGED <<result, returned>>
       ELSE IF has_display
       THEN /\ pc' = "pd_stop"
            /\ UNCHANGED <<idx, result, returned>>
       ELSE /\ result' = DryRunResult(Len(file_objects))
            /\ returned' = TRUE
            /\ pc' = "returned"
            /\ UNCHANGED idx
    /\ UNCHANGED <<success, success_count, failed_count, raised, interrupted, exit_status>>
    /\ UNCHANGED <<setup, inputs, listing, locals, history, display, render>>

\* self.progress_display.update(obj['Key'], True), first part.
DryRunUpdateFile ==
    /\ pc = "dry_update"
    /\ pd' = PdUpdateFile(pd, file_objects[idx])
    /\ pd_events' = Append(pd_events, "update")
    /\ update_keys' = Append(update_keys, file_objects[idx])
    /\ pc' = "dry_update_count"
    /\ UNCHANGED <<setup, inputs, listing, locals, counters, outcome, history, render>>

\* Mutant of DryRunUpdateCount: the dry-run update is marked failed.
DryRunUpdateCountFailed ==
    /\ pc = "dry_update_count"
    /\ pd' = PdUpdateCount(pd, FALSE)
    /\ pc' = "dry_loop"
    /\ UNCHANGED <<pd_events, update_keys>>
    /\ UNCHANGED <<setup, inputs, listing, locals, counters, outcome, history, render>>

\* self.progress_display.update(obj['Key'], True), second part, and the
\* time.sleep(0.01) that follows.
DryRunUpdateCount ==
    /\ pc = "dry_update_count"
    /\ pd' = PdUpdateCount(pd, TRUE)
    /\ pc' = "dry_loop"
    /\ UNCHANGED <<pd_events, update_keys>>
    /\ UNCHANGED <<setup, inputs, listing, locals, counters, outcome, history, render>>

\* ------------------------------------------------------------------ publish loop
LoopResult(ok, bad, n) == [success |-> ok, failed |-> bad, total |-> n]

\* The value make_objects_public returns after the display was stopped.
FinalResult ==
    IF dry_run THEN DryRunResult(Len(file_objects))
    ELSE LoopResult(success_count, failed_count, Len(file_objects))

\* `for i, obj in enumerate(file_objects, 1):` takes the next object, or the
\* loop ends and the function stops the display or returns.
LoopNext ==
    /\ pc = "loop"
    /\ IF idx < Len(file_objects)
       THEN /\ idx' = idx + 1
            /\ pc' = IF has_display THEN "update" ELSE "acl"
            /\ UNCHANGED <<result, returned>>
       ELSE IF has_display
       THEN /\ pc' = "pd_stop"
            /\ UNCHANGED <<idx, result, returned>>
       ELSE /\ result' = LoopResult(success_count, failed_count, Len(file_objects))
            /\ returned' = TRUE
            /\ pc' = "returned"
            /\ UNCHANGED idx
    /\ UNCHANGED <<success, success_count, failed_count, raised, interrupted, exit_status>>
    /\ UNCHANGED <<setup, inputs, listing, locals, history, display, render>>

\* self.progress_display.update(object_key, True), first part.
LoopUpdateFile ==
    /\ pc = "update"
    /\ pd' = PdUpdateFile(pd, file_objects[idx])
    /\ pd_events' = Append(pd_events, "update")
    /\ update_keys' = Append(update_keys, file_objects[idx])
    /\ pc' = "update_count"
    /\ UNCHANGED <<setup, inputs, listing, locals, counters, outcome, history, render>>

\* Mutant of LoopUpdateCount: with a display the object is only shown, the
\* request is not sent.
LoopUpdateCountSkipsCall ==
    /\ pc = "update_count"
    /\ pd' = PdUpdateCount(pd, TRUE)
    /\ pc' = "sleep"
    /\ UNCHANGED <<pd_events, update_keys>>
    /\ UNCHANGED <<setup, inputs, listing, locals, counters, outcome, history, render>>

\* self.progress_display.update(object_key, True), second part.
LoopUpdateCount ==
    /\ pc = "update_count"
    /\ pd' = PdUpdateCount(pd, TRUE)
    /\ pc' = "acl"
    /\ UNCHANGED <<pd_events, update_keys>>
    /\ UNCHANGED <<setup, inputs, listing, locals, counters, outcome, history, render>>

\* Mutant of MakeObjectPublic: a ClientError ends the loop (the remaining
\* objects are skipped).
MakeObjectPublicBreaks ==
    /\ pc = "acl"
    /\ \E o \in Outcomes :
        /\ acl_calls' = Append(acl_calls, [Key |-> file_objects[idx], Outcome |-> o])
        /\ IF o = "OtherError"
           THEN /\ raised' = TRUE
                /\ pc' = "raised"
                /\ UNCHANGED <<success, idx>>
           ELSE /\ success' = (o = "ok")
                /\ idx' = IF o = "ok" THEN idx ELSE Len(file_objects)
                /\ pc' = "account"
                /\ UNCHANGED raised
    /\ UNCHANGED <<success_count, failed_count, result, returned, interrupted, exit_status>>
    /\ UNCHANGED <<list_calls, list_returns, requests, sleeps>>
    /\ UNCHANGED <<setup, inputs, listing, locals, display, render>>

\* make_object_public: put_object_acl(Bucket, Key, ACL='public-read') returns
\* (True), raises ClientError (caught: False) or raises something else (not
\* caught in make_object_public nor in make_objects_public).
MakeObjectPublic ==
    /\ pc = "acl"
    /\ \E o \in Outcomes :
        /\ acl_calls' = Append(acl_calls, [Key |-> file_objects[idx], Outcome |-> o])
        /\ IF o = "OtherError"
           THEN /\ raised' = TRUE
                /\ pc' = "raised"
                /\ UNCHANGED success
           ELSE /\ success' = (o = "ok")
                /\ pc' = "account"
                /\ UNCHANGED raised
    /\ UNCHANGED <<idx, success_count, failed_count, result, returned, interrupted, exit_status>>
    /\ UNCHANGED <<list_calls, list_returns, requests, sleeps>>
    /\ UNCHANGED <<setup, inputs, listing, locals, display, render>>

\* Mutant of Account: a failure is logged but not counted.
AccountDropsFailure ==
    /\ pc = "account"
    /\ IF success
       THEN /\ success_count' = success_count + 1
            /\ pc' = "sleep"
            /\ UNCHANGED failed_count
       ELSE /\ pc' = IF has_display THEN "fix_success" ELSE "sleep"
            /\ UNCHANGED <<success_count, failed_count>>
    /\ UNCHANGED <<idx, success>>
    /\ UNCHANGED <<setup, inputs, listing, locals, outcome, history, display, render>>

\* `if success: success_count += 1  else: failed_count += 1`
Account ==
    /\ pc = "account"
    /\ IF success
       THEN /\ success_count' = success_count + 1
            /\ pc' = "sleep"
            /\ UNCHANGED failed_count
       ELSE /\ failed_count' = failed_count + 1
            /\ pc' = IF has_display THEN "fix_success" ELSE "sleep"
            /\ UNCHANGED success_count
    /\ UNCHANGED <<idx, success>>
    /\ UNCHANGED <<setup, inputs, listing, locals, outcome, history, display, render>>

\* Mutant of FixSuccess: the optimistic success is not taken back.
FixSuccessSkipped ==
    /\ pc = "fix_success"
    /\ pc' = "fix_failed"
    /\ UNCHANGED <<setup, inputs, listing, locals, counters, outcome, history, display, render>>

\* self.progress_display.success_count -= 1
FixSuccess ==
    /\ pc = "fix_success"
    /\ pd' = [pd EXCEPT !.success_count = pd.success_count - 1]
    /\ pc' = "fix_failed"
    /\ UNCHANGED <<pd_events, update_keys>>
    /\ UNCHANGED <<setup, inputs, listing, locals, counters, outcome, history, render>>

\* self.progress_display.failed_count += 1
FixFailed ==
    /\ pc = "fix_failed"
    /\ pd' = [pd EXCEPT !.failed_count = pd.failed_count + 1]
    /\ pc' = "sleep"
    /\ UNCHANGED <<pd_events, update_keys>>
    /\ UNCHANGED <<setup, inputs, listing, locals, counters, outcome, history, render>>

\* Mutant of Pace: the loop goes on without the delay.
PaceSkipped ==
    /\ pc = "sleep"
    /\ pc' = "loop"
    /\ UNCHANGED <<setup, inputs, listing, locals, counters, outcome, history, display, render>>

\* time.sleep(0.1) at the end of the loop body.
Pace ==
    /\ pc = "sleep"
    /\ sleeps' = sleeps + 1
    /\ pc' = "loop"
    /\ UNCHANGED <<list_calls, list_returns, requests, acl_calls>>
    /\ UNCHANGED <<setup, inputs, listing, locals, counters, outcome, display, render>>

\* ------------------------------------------------------------------ ProgressDisplay.stop
ThreadAlive(r) == r \notin {"none", "exited"}

\* self.is_running = False; self._stop_animation = True
PdStop ==
    /\ pc = "pd_stop"
    /\ pd' = PdStopFlags(pd)
    /\ pd_events' = Append(pd_events, "stop")
    /\ UNCHANGED update_keys
    /\ pc' = "pd_join"
    /\ UNCHANGED <<setup, inputs, listing, locals, counters, outcome, history, render>>

\* Mutant of PdJoin: stop() does not wait for the animation thread.
PdJoinDoesNotWait ==
    /\ pc = "pd_join"
    /\ pc' = "pd_summary"
    /\ UNCHANGED <<setup, inputs, listing, locals, counters, outcome, history, display, render>>

\* `if self._animation_thread and self._animation_thread.is_alive(): join()`
\* returns once the animation thread is no longer alive.
PdJoin ==
    /\ pc = "pd_join"
    /\ ~ThreadAlive(rpc)
    /\ pc' = "pd_summary"
    /\ UNCHANGED <<setup, inputs, listing, locals, counters, outcome, history, display, render>>

\* self._show_final_summary(), after which make_objects_public returns.
PdSummary ==
    /\ pc = "pd_summary"
    /\ summary_count' = summary_count + 1
    /\ result' = FinalResult
    /\ returned' = TRUE
    /\ pc' = "returned"
    /\ UNCHANGED <<rpc, frames, frame, frame_after_summary, raised, interrupted, exit_status>>
    /\ UNCHANGED <<setup, inputs, listing, locals, counters, history, display>>

\* ------------------------------------------------------------------ animation thread
\* Mutant of LoopCondition: the loop runs for ever (`while True:`).
LoopConditionAlways(d) == TRUE

\* `while self.is_running and not self._stop_animation:`
LoopCondition(d) == d.is_running /\ ~d.stop_animation

RenderCheck ==
    /\ pc # "exited"
    /\ rpc = "check"
    /\ rpc' = IF LoopCondition(pd) THEN "draw" ELSE "exited"
    /\ UNCHANGED <<frames, frame, summary_count, frame_after_summary>>
    /\ UNCHANGED <<setup, inputs, pc, listing, locals, counters, outcome, history, display>>

\* Width of the rich progress bar.
BarCells == 30

\* filled_length = int(30 * self.processed_files / self.total_files)
FilledLength(processed, total) == (BarCells * processed) \div total

\* (self.total_files - self.processed_files), the files left, for the ETA.
Remaining(processed, total) == total - processed

\* What the first part of a frame reads: processed_files and total_files,
\* for the progress bar and the rate.
ReadProgress(f, d) ==
    [f EXCEPT !.processed = d.processed_files, !.total = d.total_files]

\* What the last part of a frame reads: success_count and failed_count.
ReadStats(f, d) ==
    [f EXCEPT !.success = d.success_count, !.failed = d.failed_count]

\* The loop body, first part: the spinner advances (simple loop) and the
\* progress bar is built from processed_files and total_files.
RenderDraw ==
    /\ pc # "exited"
    /\ rpc = "draw"
    /\ frames' = IF frames < MaxFrames THEN frames + 1 ELSE frames
    /\ frame' = ReadProgress(frame, pd)
    /\ frame_after_summary' = (frame_after_summary \/ summary_count > 0)
    /\ rpc' = "stats"
    /\ UNCHANGED summary_count
    /\ UNCHANGED <<setup, inputs, pc, listing, locals, counters, outcome, history, display>>

\* The loop body, last part: the statistics line (simple) or panel (rich) is
\* built from success_count and failed_count, and the frame is written.
RenderStats ==
    /\ pc # "exited"
    /\ rpc = "stats"
    /\ frame' = ReadStats(frame, pd)
    /\ frame_after_summary' = (frame_after_summary \/ summary_count > 0)
    /\ rpc' = "sleep"
    /\ UNCHANGED <<frames, summary_count>>
    /\ UNCHANGED <<setup, inputs, pc, listing, locals, counters, outcome, history, display>>

\* Mutant of RenderSleep: the loop clears current_file after each frame.
RenderSleepClearsFile ==
    /\ pc # "exited"
    /\ rpc = "sleep"
    /\ rpc' = "check"
    /\ pd' = [pd EXCEPT !.current_file = <<>>]
    /\ UNCHANGED <<pd_events, update_keys, frames, frame, summary_count, frame_after_summary>>
    /\ UNCHANGED <<setup, inputs, pc, listing, locals, counters, outcome, history>>

\* time.sleep(0.1) of the animation loop.
RenderSleep ==
    /\ pc # "exited"
    /\ rpc = "sleep"
    /\ rpc' = "check"
    /\ UNCHANGED <<frames, frame, summary_count, frame_after_summary>>
    /\ UNCHANGED <<setup, inputs, pc, listing, locals, counters, outcome, history, display>>

\* ------------------------------------------------------------------ main
\* make_objects_public returned: main logs the results and ends; the
\* interpreter exits with status 0.
MainReturn ==
    /\ pc = "returned"
    /\ exit_status' = 0
    /\ pc' = "exited"
    /\ UNCHANGED <<result, returned, raised, interrupted>>
    /\ UNCHANGED <<setup, inputs, listing, locals, counters, history, display, render>>

\* `except Exception as e:` of main: log and sys.exit(1).
MainExcept ==
    /\ pc = "raised"
    /\ exit_status' = 1
    /\ pc' = "exited"
    /\ UNCHANGED <<result, returned, raised, interrupted>>
    /\ UNCHANGED <<setup, inputs, listing, locals, counters, history, display, render>>

\* The user presses Ctrl-C: KeyboardInterrupt is raised in the main thread,
\* wherever it is inside main's try block; no handler below main catches it.
Interrupt ==
    /\ pc \notin {"main", "validate", "raised", "interrupted", "exited"}
    /\ interrupted' = TRUE
    /\ pc' = "interrupted"
    /\ UNCHANGED <<result, returned, raised, exit_status>>
    /\ UNCHANGED <<setup, inputs, listing, locals, counters, history, display, render>>

\* `except KeyboardInterrupt:` of main: log and sys.exit(1); the daemon
\* animation thread is not stopped and ends with the process.
MainInterrupt ==
    /\ pc = "interrupted"
    /\ exit_status' = 1
    /\ pc' = "exited"
    /\ UNCHANGED <<result, returned, raised, interrupted>>
    /\ UNCHANGED <<setup, inputs, listing, locals, counters, history, display, render>>

Next ==
    \/ StartListing
    \/ ListPage
    \/ ListReturn
    \/ FirstListingEmpty
    \/ DiagnosticReturn
    \/ FilterObjects
    \/ PdStart
    \/ DryRunNext
    \/ DryRunUpdateFile
    \/ DryRunUpdateCount
    \/ LoopNext
    \/ LoopUpdateFile
    \/ LoopUpdateCount
    \/ MakeObjectPublic
    \/ Account
    \/ FixSuccess
    \/ FixFailed
    \/ Pace
    \/ PdStop
    \/ PdJoin
    \/ PdSummary
    \/ RenderCheck
    \/ RenderDraw
    \/ RenderStats
    \/ RenderSleep
    \/ MainReturn
    \/ MainExcept
    \/ Interrupt
    \/ MainInterrupt

Spec == Init /\ [][Next]_vars

\* ------------------------------------------------------------------ scheduling
\* The steps of the main thread, the user's interrupt aside.
Publish ==
    \/ StartListing
    \/ ListPage
    \/ ListReturn
    \/ FirstListingEmpty
    \/ DiagnosticReturn
    \/ FilterObjects
    \/ PdStart
    \/ DryRunNext
    \/ DryRunUpdateFile
    \/ DryRunUpdateCount
    \/ LoopNext
    \/ LoopUpdateFile
    \/ LoopUpdateCount
    \/ MakeObjectPublic
    \/ Account
    \/ FixSuccess
    \/ FixFailed
    \/ Pace
    \/ PdStop
    \/ PdJoin
    \/ PdSummary
    \/ MainReturn
    \/ MainExcept
    \/ MainInterrupt

\* The steps of the animation thread.
Animate ==
    \/ RenderCheck
    \/ RenderDraw
    \/ RenderStats
    \/ RenderSleep

\* The runs followed to their end: the fullest buckets, the largest pages.
InitLive ==
    /\ Init
    /\ Cardinality(store) = MaxBucket
    /\ page_size = MaxPageSize

\* The interpreter keeps switching between its threads and every sleep and
\* every storage call comes back: a thread that can take a step takes one.
SpecLive == InitLive /\ [][Next]_vars /\ WF_vars(Publish) /\ WF_vars(Animate)

\* ------------------------------------------------------------------ two calls
\* make_objects_public is called on a manager without a display and then, on
\* the same bucket with the same arguments, on a manager with one.
InitTwice ==
    /\ Init
    /\ ~has_display
    /\ Cardinality(store) = MaxBucket
    /\ page_size = MaxPageSize

\* The first call is over (it returned or raised): what it did is kept in
\* ref, and the second call is entered with a fresh display.
SecondCall ==
    /\ pc \in {"returned", "raised"}
    /\ ~has_display
    /\ ~ref.done
    /\ ref' = [done |-> TRUE, list_calls |-> list_calls, requests |-> requests,
               acl_calls |-> acl_calls, sleeps |-> sleeps, result |-> result,
               returned |-> returned, raised |-> raised]
    /\ has_display' = TRUE
    /\ pc' = "start"
    /\ list_phase' = "first"
    /\ page_params' = [Prefix |-> <<>>, Delimiter |-> None]
    /\ page_count' = 0
    /\ acc' = <<>>
    /\ list_ret' = <<>>
    /\ objects' = <<>>
    /\ all_objects' = <<>>
    /\ unique_prefixes' = {}
    /\ file_objects' = <<>>
    /\ dir_markers' = 0
    /\ idx' = 0
    /\ success' = FALSE
    /\ success_count' = 0
    /\ failed_count' = 0
    /\ result' = EmptyResult
    /\ returned' = FALSE
    /\ raised' = FALSE
    /\ interrupted' = FALSE
    /\ exit_status' = -1
    /\ list_calls' = <<>>
    /\ list_returns' = <<>>
    /\ requests' = <<>>
    /\ acl_calls' = <<>>
    /\ sleeps' = 0
    /\ pd' = PdInit
    /\ pd_events' = <<>>
    /\ update_keys' = <<>>
    /\ rpc' = "none"
    /\ frames' = 0
    /\ frame' = NoFrame
    /\ summary_count' = 0
    /\ frame_after_summary' = FALSE
    /\ UNCHANGED <<argv, config, environ, eff, mgr, url, bucket_calls>>
    /\ UNCHANGED <<store, prefix, recursive, dry_run, page_size>>

NextTwice ==
    \/ Next
    \/ SecondCall

SpecTwice == InitTwice /\ [][NextTwice]_vars

\* ------------------------------------------------------------------ the display alone
\* ProgressDisplay driven through its public methods by an arbitrary caller,
\* with its animation thread.  The caller is one thread; start() is taken
\* only while no animation thread is alive, so one thread position is enough.
InitReporter ==
    /\ store = {}
    /\ prefix = <<>>
    /\ recursive = TRUE
    /\ dry_run = FALSE
    /\ page_size = 1
    /\ has_display = TRUE
    /\ pc = "api"
    /\ Blank
    /\ Unconfigured

\* start(total)
ApiStart(total) ==
    /\ pc = "api"
    /\ Len(pd_events) < MaxCalls
    /\ ~ThreadAlive(rpc)
    /\ pd' = PdStartFields(pd, total)
    /\ pd_events' = Append(pd_events, "start")
    /\ rpc' = "check"
    /\ UNCHANGED <<pc, update_keys, frames, frame, summary_count, frame_after_summary>>
    /\ UNCHANGED <<setup, inputs, listing, locals, counters, outcome, history>>

\* update(key, ok), first three statements.
ApiUpdateFile(key, ok) ==
    /\ pc = "api"
    /\ Len(pd_events) < MaxCalls
    /\ pd' = PdUpdateFile(pd, key)
    /\ pd_events' = Append(pd_events, "update")
    /\ update_keys' = Append(update_keys, key)
    /\ success' = ok
    /\ pc' = "api_update"
    /\ UNCHANGED <<idx, success_count, failed_count>>
    /\ UNCHANGED <<setup, inputs, listing, locals, outcome, history, render>>

\* update(key, ok), the `if success:` statement.
ApiUpdateCount ==
    /\ pc = "api_update"
    /\ pd' = PdUpdateCount(pd, success)
    /\ pc' = "api"
    /\ UNCHANGED <<pd_events, update_keys>>
    /\ UNCHANGED <<setup, inputs, listing, locals, counters, outcome, history, render>>

\* stop(): self.is_running = False; self._stop_animation = True
ApiStop ==
    /\ pc = "api"
    /\ Len(pd_events) < MaxCalls
    /\ pd' = PdStopFlags(pd)
    /\ pd_events' = Append(pd_events, "stop")
    /\ pc' = "api_join"
    /\ UNCHANGED update_keys
    /\ UNCHANGED <<setup, inputs, listing, locals, counters, outcome, history, render>>

\* stop(): the join returns once the animation thread is no longer alive.
ApiJoin ==
    /\ pc = "api_join"
    /\ ~ThreadAlive(rpc)
    /\ pc' = "api_summary"
    /\ UNCHANGED <<setup, inputs, listing, locals, counters, outcome, history, display, render>>

\* stop(): self._show_final_summary()
ApiSummary ==
    /\ pc = "api_summary"
    /\ summary_count' = summary_count + 1
    /\ pc' = "api"
    /\ UNCHANGED <<rpc, frames, frame, frame_after_summary>>
    /\ UNCHANGED <<setup, inputs, listing, locals, counters, outcome, history, display>>

NextReporter ==
    \/ \E total \in 0..MaxTotal : ApiStart(total)
    \/ \E key \in {KeyAX, KeyZ}, ok \in BOOLEAN : ApiUpdateFile(key, ok)
    \/ ApiUpdateCount
    \/ ApiStop
    \/ ApiJoin
    \/ ApiSummary
    \/ RenderCheck
    \/ RenderDraw
    \/ RenderStats
    \/ RenderSleep

SpecReporter == InitReporter /\ [][NextReporter]_vars


\* ------------------------------------------------------------------ properties
\* Number of entries of a listing that are not directory markers.
CountFiles(objs) == Cardinality({n \in DOMAIN objs : ~EndsWithSlash(objs[n])})

CountMarkers(objs) == Cardinality({n \in DOMAIN objs : EndsWithSlash(objs[n])})

CountOutcome(calls, o) == Cardinality({n \in DOMAIN calls : calls[n].Outcome = o})

\* Position of key k in the sequence s (keys of a listing are distinct).
Pos(s, k) == CHOOSE n \in DOMAIN s : s[n] = k

\* C1: when make_objects_public returns from a run with dry_run = false, the
\* counts satisfy success + failed = total, total is the number of listed
\* keys not ending in '/', success is the number of ACL requests that returned
\* and failed the number that raised ClientError.
C1_CountsAddUp ==
    (returned /\ ~dry_run) =>
        /\ result.success + result.failed = result.total
        /\ result.total = CountFiles(objects)
        /\ result.success = CountOutcome(acl_calls, "ok")
        /\ result.failed = CountOutcome(acl_calls, "ClientError")

C1_Witness ==
    /\ returned
    /\ ~dry_run
    /\ result.success >= 1
    /\ result.failed >= 1
    /\ dir_markers >= 1

\* C2: with dry_run = true no put_object_acl request is ever sent, and the
\* value returned is {success: 0, failed: 0, total: number of files listed}.
C2_DryRunNeverMutates ==
    dry_run =>
        /\ acl_calls = <<>>
        /\ pc # "acl"
        /\ returned => result = [success |-> 0, failed |-> 0,
                                 total |-> CountFiles(objects)]

C2_Witness ==
    /\ dry_run
    /\ returned
    /\ has_display
    /\ result.total >= 2
    /\ dir_markers >= 1

\* C3: file_objects holds no key ending in '/', holds exactly the other keys
\* of the raw listing in the listing's order, and its length plus the number
\* of directory markers equals the length of the raw listing.
C3_WorkBatchFilter ==
    /\ \A n \in DOMAIN file_objects : ~EndsWithSlash(file_objects[n])
    /\ SeqToSet(file_objects) = {k \in SeqToSet(objects) : ~EndsWithSlash(k)}
    /\ \A m, n \in DOMAIN file_objects :
           m < n => Pos(objects, file_objects[m]) < Pos(objects, file_objects[n])
    /\ dir_markers = CountMarkers(objects)
    /\ Len(file_objects) + dir_markers = Len(objects)

C3_Witness ==
    /\ dir_markers >= 1
    /\ Len(file_objects) >= 2
    /\ objects[1] = KeyDir

RECURSIVE ConcatPages(_)
ConcatPages(n) ==
    IF n = 0 THEN <<>>
    ELSE ConcatPages(n - 1)
         \o StorePage(store, page_params.Prefix, page_params.Delimiter, page_size, n).Contents

\* The page requests sent by list_objects call number c.
RequestsOfCall(c) == SelectSeq(requests, LAMBDA r : r.Call = c)

\* C5: when list_objects returns after all N pages of the listing were served
\* without a failure, the value returned is the concatenation of the pages'
\* objects in page order; it holds every listed key once, and one request was
\* sent per page, in page order.
C5_PagesConcatenated ==
    (pc = "list_ret" /\ page_count = PagesOfCall) =>
        /\ list_ret = ConcatPages(PagesOfCall)
        /\ SeqToSet(list_ret) = ListedKeys(store, page_params.Prefix, page_params.Delimiter)
        /\ Len(list_ret) = Cardinality(SeqToSet(list_ret))
        /\ Len(RequestsOfCall(Len(list_calls))) = PagesOfCall
        /\ \A n \in 1..PagesOfCall : RequestsOfCall(Len(list_calls))[n].Page = n

C5_Witness ==
    /\ pc = "list_ret"
    /\ page_count = PagesOfCall
    /\ PagesOfCall >= 2
    /\ Len(list_ret) >= 2
    /\ \E n \in 1..PagesOfCall :
           StorePage(store, page_params.Prefix, page_params.Delimiter, page_size, n).Contents = <<>>

\* A stored key that a non-recursive listing of the run's prefix groups into a
\* common prefix.
BelowPrefix(k) == StartsWith(k, prefix) /\ HasSlash(Rest(k, prefix))

\* C6: every page request of a non-recursive list_objects call carries the
\* '/' delimiter and every page request of a recursive call carries none; in
\* a non-recursive run no key grouped into a common prefix is in objects or
\* file_objects or is sent a put_object_acl request; with prefix 'a/' and the
\* keys 'a/x' and 'a/b/y' stored, a listing that returned objects gives the
\* WorkBatch <<'a/x'>>.
C6_DelimiterNonRecursive ==
    /\ \A n \in DOMAIN requests :
           /\ requests[n].Prefix = list_calls[requests[n].Call].Prefix
           /\ requests[n].Delimiter =
                  IF list_calls[requests[n].Call].Recursive THEN None ELSE Slash
    /\ (list_calls # <<>>) => list_calls[1] = [Prefix |-> prefix, Recursive |-> recursive]
    /\ ~recursive =>
           \A k \in store :
               BelowPrefix(k) =>
                   /\ k \notin SeqToSet(objects)
                   /\ k \notin SeqToSet(file_objects)
                   /\ \A n \in DOMAIN acl_calls : acl_calls[n].Key # k
    /\ (~recursive /\ prefix = PrefixA /\ {KeyAX, KeyABY} \subseteq store /\ objects # <<>>) =>
           file_objects = <<KeyAX>>

C6_Witness ==
    /\ ~recursive
    /\ prefix = PrefixA
    /\ {KeyAX, KeyABY} \subseteq store
    /\ ~dry_run
    /\ returned
    /\ acl_calls = <<[Key |-> KeyAX, Outcome |-> "ok"]>>

\* C7: once the first listing has returned zero objects, exactly one more
\* list_objects call is made, for the empty prefix and recursive; whatever it
\* returns, no put_object_acl request is sent, the display is neither started
\* nor stopped, nothing is raised and make_objects_public returns
\* {success: 0, failed: 0, total: 0} (a user interrupt aside, which is no
\* storage outcome).
C7_EmptyListingDiagnostic ==
    (Len(list_returns) >= 1 /\ list_returns[1] = <<>>) =>
        /\ Len(list_calls) <= 2
        /\ ~(interrupted \/ (pc = "list_ret" /\ list_phase = "first")) =>
               /\ Len(list_calls) = 2
               /\ list_calls[2] = [Prefix |-> <<>>, Recursive |-> TRUE]
        /\ acl_calls = <<>>
        /\ pd_events = <<>>
        /\ rpc = "none"
        /\ summary_count = 0
        /\ file_objects = <<>>
        /\ Len(list_calls) = 2 => list_calls[2] = [Prefix |-> <<>>, Recursive |-> TRUE]
        /\ Len(list_returns) = 2 =>
               /\ ~raised
               /\ (~interrupted /\ pc # "list_ret") =>
                      (returned /\ result = EmptyResult /\ exit_status # 1)

C7_Witness ==
    /\ prefix = PrefixMissing
    /\ Len(list_returns) = 2
    /\ list_returns[1] = <<>>
    /\ Len(list_returns[2]) >= 2
    /\ returned
    /\ unique_prefixes # {}

\* C8: no storage-layer error ends the run: every failed listing request is
\* turned into an empty list_objects result, every failed put_object_acl
\* request into one failed_count increment, nothing is raised out of
\* make_objects_public, and the exit status is 0 once it has returned.
C8_NoStorageErrorEndsRun ==
    /\ ~raised
    /\ exit_status # 1
    /\ \A n \in DOMAIN requests :
           (requests[n].Outcome # "ok" /\ Len(list_returns) >= requests[n].Call) =>
               list_returns[requests[n].Call] = <<>>
    /\ pc = "loop" => failed_count = Len(acl_calls) - CountOutcome(acl_calls, "ok")
    /\ (returned /\ pc = "exited") => exit_status = 0

\* C9: no failed storage request is sent again in the run: no put_object_acl
\* request follows a failed one for the same key, and no listing request
\* follows a failed one with the same prefix and delimiter.
C9_NoFailedRequestReissued ==
    /\ \A m, n \in DOMAIN acl_calls :
           (m < n /\ acl_calls[m].Outcome # "ok") => acl_calls[n].Key # acl_calls[m].Key
    /\ \A m, n \in DOMAIN requests :
           (m < n /\ requests[m].Outcome # "ok") =>
               <<requests[n].Prefix, requests[n].Delimiter>>
                   # <<requests[m].Prefix, requests[m].Delimiter>>

\* The state of the Progress Reporter as its two flags give it.
Phase ==
    IF pd.is_running
    THEN (IF pd.stop_animation THEN "Invalid" ELSE "Running")
    ELSE (IF pd.stop_animation THEN "Stopped" ELSE "Idle")

C10_State ==
    /\ Phase # "Invalid"
    /\ summary_count <= 1
    /\ ~frame_after_summary
    /\ summary_count = 1 => (Phase = "Stopped" /\ rpc = "exited")
    /\ (returned /\ pd_events # <<>>) => summary_count = 1

C10_Step ==
    /\ Phase' # Phase =>
           \/ (Phase = "Idle" /\ Phase' = "Running")
           \/ (Phase = "Running" /\ Phase' = "Stopped")
    /\ pd_events' = Append(pd_events, "start") =>
           /\ pd'.processed_files = 0
           /\ pd'.success_count = 0
           /\ pd'.failed_count = 0
           /\ pd'.total_files = Len(file_objects)
           /\ pd'.is_running
    /\ pc \in {"update", "update_count", "dry_update", "dry_update_count"} =>
           pd'.is_running = pd.is_running
    /\ pd_events' = Append(pd_events, "stop") => ~pd'.is_running
    /\ pd'.is_running # pd.is_running => Len(pd_events') = Len(pd_events) + 1
    /\ summary_count' # summary_count =>
           /\ pc = "pd_summary"
           /\ ~pd.is_running
           /\ ~ThreadAlive(rpc)
    /\ summary_count >= 1 => frames' = frames

\* C10: the Progress Reporter only moves Idle -> Running -> Stopped; start
\* zeroes processed, success and failed and sets total and the running flag;
\* update leaves the running flag alone; stop clears the running flag, and
\* the final summary is printed once, only after the animation thread has
\* exited, so that no frame is drawn after it.
C10_ReporterLifecycle == [](C10_State) /\ [][C10_Step]_vars

C10_Witness ==
    /\ summary_count = 1
    /\ Phase = "Stopped"
    /\ rpc = "exited"
    /\ frames >= 2
    /\ pd.processed_files >= 2

\* The display was started and stop() has not been called.
ReporterStarted == pd_events # <<>> /\ pd_events[Len(pd_events)] # "stop"

\* C12: when a user interrupt arrives while the publishing loop runs with the
\* display started, then at the end of the process the animation thread has
\* exited, the final summary has been printed and the exit status is 1.
C12_InterruptStopsRenderer ==
    (interrupted /\ ReporterStarted /\ pc = "exited") =>
        /\ ~ThreadAlive(rpc)
        /\ ~pd.is_running
        /\ summary_count = 1
        /\ exit_status = 1

\* C17: the counters a completed frame of the animation loop shows are
\* consistent: success + failed = processed.
C17_NoTornFrame ==
    rpc = "sleep" => frame.success + frame.failed = frame.processed

\* A step of the animation thread.
RenderStep == ThreadAlive(rpc) /\ rpc' # rpc

\* C18: no step of the animation thread changes a field of the display
\* (current file and directory, processed, total, success, failed, start
\* time, running flag) or sends a storage request, and the display's fields
\* change only in steps of the main thread.
C18_RenderOnlyReads ==
    [][/\ RenderStep =>
              /\ pd' = pd
              /\ pc' = pc
              /\ <<list_calls, requests, acl_calls>>' = <<list_calls, requests, acl_calls>>
       /\ pd' # pd => (pc' # pc /\ ~RenderStep)]_vars

C18_Witness ==
    /\ rpc = "sleep"
    /\ frames >= 2
    /\ frame.processed >= 1
    /\ frame.success >= 1
    /\ pd.current_file # <<>>

\* stop() has been called on the display.
StopCalled == pd_events # <<>> /\ pd_events[Len(pd_events)] = "stop"

\* C19: in a run with dry_run = false and a display, the update for an
\* object comes before its put_object_acl request; after a failure the
\* display's success count is taken down by one and its failed count up by one
\* before the next object is taken; the display's success count is always the
\* loop's success_count or one more; and when stop() is called, and when the
\* function returns, the display's success and failed counts are the loop's.
C19_OptimisticCounts ==
    (~dry_run /\ has_display) =>
        /\ pd.success_count - success_count \in {0, 1}
        /\ Len(acl_calls) <= Len(update_keys)
        /\ pc = "acl" =>
               /\ Len(update_keys) = Len(acl_calls) + 1
               /\ update_keys[Len(update_keys)] = file_objects[idx]
               /\ pd.success_count = success_count + 1
        /\ pc = "loop" =>
               /\ pd.success_count = success_count
               /\ pd.failed_count = failed_count
        /\ StopCalled =>
               /\ pd.success_count = success_count
               /\ pd.failed_count = failed_count
        /\ (returned /\ StopCalled) =>
               /\ pd.success_count = result.success
               /\ pd.failed_count = result.failed

C19_Witness ==
    /\ ~dry_run
    /\ has_display
    /\ returned
    /\ StopCalled
    /\ result.success >= 1
    /\ result.failed >= 1

\* start, then n updates, then stop when `stopped`.
RECURSIVE Updates(_)
Updates(n) == IF n = 0 THEN <<>> ELSE Append(Updates(n - 1), "update")

EventPattern(n, stopped) ==
    <<"start">> \o Updates(n) \o (IF stopped THEN <<"stop">> ELSE <<>>)

\* C20: with a display, the calls on it are start(|file_objects|), then one
\* update per file_objects entry in order, then one stop(), for a dry run
\* and for a real one; when the function returns from a run with files all
\* of them have been made; with no file to process no call is made at all.
C20_ReporterEventOrder ==
    /\ ~has_display => pd_events = <<>>
    /\ file_objects = <<>> => (pd_events = <<>> /\ rpc = "none")
    /\ Len(update_keys) <= Len(file_objects)
    /\ \A n \in DOMAIN update_keys : update_keys[n] = file_objects[n]
    /\ pd_events # <<>> =>
           /\ pd_events = EventPattern(Len(update_keys), StopCalled)
           /\ pd.total_files = Len(file_objects)
    /\ StopCalled => Len(update_keys) = Len(file_objects)
    /\ (has_display /\ returned /\ file_objects # <<>>) =>
           pd_events = EventPattern(Len(file_objects), TRUE)

C20_Witness ==
    /\ has_display
    /\ dry_run
    /\ returned
    /\ dir_markers >= 1
    /\ Len(update_keys) >= 2
    /\ pd_events = EventPattern(2, TRUE)

\* ------------------------------------------------------------------ S3PublicManager
\* The keys of SERVICES.
ServiceNames ==
    {<<"aws">>, <<"digitalocean">>, <<"wasabi">>, <<"backblaze">>, <<"minio">>}

\* SERVICES[service]['endpoint_url']
EndpointTemplate(service) ==
    CASE service = <<"aws">> -> Nothing
      [] service = <<"digitalocean">> ->
             Some(<<"https://", "{region}", ".digitaloceanspaces.com">>)
      [] service = <<"wasabi">> ->
             Some(<<"https://", "s3.", "{region}", ".wasabisys.com">>)
      [] service = <<"backblaze">> ->
             Some(<<"https://", "s3.", "{region}", ".backblazeb2.com">>)
      [] service = <<"minio">> -> Some(<<"http://", "localhost:9000">>)

\* endpoint_template.format(region=region)
RECURSIVE Format(_, _)
Format(template, region) ==
    IF template = <<>> THEN <<>>
    ELSE IF Head(template) = "{region}" THEN region \o Format(Tail(template), region)
    ELSE <<Head(template)>> \o Format(Tail(template), region)

\* __init__, "Determine endpoint URL".
ResolveEndpoint(service, region, endpoint_url) ==
    IF Truthy(endpoint_url) THEN endpoint_url
    ELSE IF service \in ServiceNames
         THEN IF Truthy(EndpointTemplate(service))
              THEN Some(Format(EndpointTemplate(service).val, region))
              ELSE Nothing
    ELSE Nothing

\* S3PublicManager(service, region, access_key, secret_key, endpoint_url, ...)
NewManager(service, region, endpoint_url) ==
    [service |-> service, region |-> region,
     endpoint_url |-> ResolveEndpoint(service, region, endpoint_url)]

\* Mutant of Replace: nothing is removed.
ReplaceKeeps(s, old) == s

\* s.replace(old, ''): every occurrence of old is removed.
Replace(s, old) == SelectSeq(s, LAMBDA t : t # old)

\* The string a sequence of tokens spells.
RECURSIVE Text(_)
Text(s) == IF s = <<>> THEN "" ELSE Head(s) \o Text(Tail(s))

\* Mutant of GetPublicUrl: 'aws' gets the regional form too.
GetPublicUrlRegional(m, bucket_name, object_key) ==
    IF m.service = <<"digitalocean">>
    THEN Text(<<"https://">> \o bucket_name \o <<".">> \o m.region
              \o <<".digitaloceanspaces.com/">> \o object_key)
    ELSE Text(<<"https://">> \o bucket_name \o <<".s3.">> \o m.region
              \o <<".amazonaws.com/">> \o object_key)

\* get_public_url(bucket_name, object_key) of the manager m.
GetPublicUrl(m, bucket_name, object_key) ==
    IF m.service = <<"aws">>
    THEN Text(<<"https://">> \o bucket_name \o <<".s3.amazonaws.com/">> \o object_key)
    ELSE IF m.service = <<"digitalocean">>
    THEN Text(<<"https://">> \o bucket_name \o <<".">> \o m.region
              \o <<".digitaloceanspaces.com/">> \o object_key)
    ELSE IF Truthy(m.endpoint_url)
    THEN LET base_url == Replace(Replace(m.endpoint_url.val, "https://"), "http://")
         IN  Text(<<"https://">> \o bucket_name \o <<".">> \o base_url
                  \o <<"/">> \o object_key)
    ELSE Text(<<"https://">> \o bucket_name \o <<".s3.">> \o m.region
              \o <<".amazonaws.com/">> \o object_key)

\* The arguments the manager is constructed and asked with.
UrlServices == ServiceNames \cup {<<"custom">>, <<"ceph">>}

UrlRegions == {<<"us-east-1">>, <<"fra1">>}

UrlEndpoints ==
    {Nothing, Some(<<>>), Some(<<"https://", "s3.example.com">>),
     Some(<<"http://", "10.0.0.1:9000">>), Some(<<"storage.example.com">>)}

UrlBuckets == {<<"bucket1">>, <<"b2">>}

UrlKeys == {<<"k.txt">>, KeyAX}

InitUrl ==
    /\ store = {}
    /\ prefix = <<>>
    /\ recursive = TRUE
    /\ dry_run = FALSE
    /\ page_size = 1
    /\ has_display = FALSE
    /\ pc = "url_new"
    /\ Blank
    /\ Unconfigured

\* manager = S3PublicManager(service, region, ..., endpoint_url, None)
UrlConstruct(service, region, endpoint_url) ==
    /\ pc = "url_new"
    /\ mgr' = NewManager(service, region, endpoint_url)
    /\ pc' = "url_ready"
    /\ UNCHANGED <<argv, config, environ, eff, url, bucket_calls, ref>>
    /\ UNCHANGED <<inputs, listing, locals, counters, outcome, history, display, render>>

\* manager.get_public_url(bucket_name, object_key)
UrlGet(bucket_name, object_key) ==
    /\ pc = "url_ready"
    /\ url' = [bucket_name |-> bucket_name, object_key |-> object_key,
               value |-> GetPublicUrl(mgr, bucket_name, object_key)]
    /\ UNCHANGED <<argv, config, environ, eff, mgr, bucket_calls, ref>>
    /\ UNCHANGED <<inputs, pc, listing, locals, counters, outcome, history, display, render>>

NextUrl ==
    \/ \E service \in UrlServices, region \in UrlRegions, endpoint_url \in UrlEndpoints :
           UrlConstruct(service, region, endpoint_url)
    \/ \E bucket_name \in UrlBuckets, object_key \in UrlKeys :
           UrlGet(bucket_name, object_key)

SpecUrl == InitUrl /\ [][NextUrl]_vars

\* ------------------------------------------------------------------ main, from its start
\* parser.parse_args(): a flag not given takes its default (None for the
\* string flags, '' for --prefix, True for the two pairs of switches).
Args(a) ==
    [service |-> a.service, region |-> a.region, access_key |-> a.access_key,
     secret_key |-> a.secret_key, endpoint_url |-> a.endpoint_url,
     bucket |-> a.bucket,
     prefix |-> IF a.prefix.some THEN a.prefix ELSE Some(<<>>),
     recursive |-> IF a.recursive.some THEN a.recursive.val ELSE TRUE,
     animated_progress |->
         IF a.animated_progress.some THEN a.animated_progress.val ELSE TRUE,
     dry_run |-> a.dry_run, list_buckets |-> a.list_buckets,
     create_config |-> a.create_config]

\* hasattr(args, name)
HasAttr(args, name) == name \in DOMAIN args

\* config.get(key, default)
ConfigGet(c, key, default) == IF c[key].some THEN c[key] ELSE default

\* "Override config with command line arguments"
Resolve(args, c, env) ==
    [service |-> Or(args.service, ConfigGet(c, "service", Nothing)),
     region |-> Or(args.region, ConfigGet(c, "region", Nothing)),
     access_key |-> Or(Or(args.access_key, ConfigGet(c, "access_key", Nothing)),
                       env.AWS_ACCESS_KEY_ID),
     secret_key |-> Or(Or(args.secret_key, ConfigGet(c, "secret_key", Nothing)),
                       env.AWS_SECRET_ACCESS_KEY),
     endpoint_url |-> Or(args.endpoint_url, ConfigGet(c, "endpoint_url", Nothing)),
     bucket_name |-> Or(args.bucket, ConfigGet(c, "bucket_name", Nothing)),
     prefix |-> Or(args.prefix, ConfigGet(c, "prefix", Some(<<>>))),
     recursive |-> IF HasAttr(args, "recursive") THEN args.recursive
                   ELSE ConfigGet(c, "recursive", Some(TRUE)).val,
     animated_progress |-> IF HasAttr(args, "animated_progress")
                           THEN args.animated_progress
                           ELSE ConfigGet(c, "animated_progress", Some(TRUE)).val]

\* all([service, region, access_key, secret_key])
AllRequired(e) ==
    /\ Truthy(e.service)
    /\ Truthy(e.region)
    /\ Truthy(e.access_key)
    /\ Truthy(e.secret_key)

\* The values a flag, a configuration key and an environment variable have
\* when they are given.
CliValue ==
    [service |-> <<"aws">>, region |-> <<"us-east-1">>, access_key |-> <<"AK-cli">>,
     secret_key |-> <<"SK-cli">>, endpoint_url |-> <<"https://", "cli.example.com">>,
     bucket |-> <<"bucket1">>]

CfgValue ==
    [service |-> <<"minio">>, region |-> <<"fra1">>, access_key |-> <<"AK-cfg">>,
     secret_key |-> <<"SK-cfg">>, endpoint_url |-> <<"http://", "cfg.example.com">>,
     bucket_name |-> <<"bucket2">>]

EnvValue ==
    [AWS_ACCESS_KEY_ID |-> <<"AK-env">>, AWS_SECRET_ACCESS_KEY |-> <<"SK-env">>]

\* The configuration key and the environment variable that go with a flag.
ConfigKey(flag) == IF flag = "bucket" THEN "bucket_name" ELSE flag

EnvKey(flag) ==
    IF flag = "access_key" THEN "AWS_ACCESS_KEY_ID" ELSE "AWS_SECRET_ACCESS_KEY"

Credentials == {"access_key", "secret_key"}

\* The runs of main looked at: the base command line with the sources of one
\* parameter varied, as <<argv, config, environ>>.
StringScenarios ==
    UNION {{<<[BaseArgv EXCEPT ![f] = x],
              [EmptyConfig EXCEPT ![ConfigKey(f)] = y], EmptyEnviron>> :
                x \in {Nothing, Some(CliValue[f])},
                y \in {Nothing, Some(CfgValue[ConfigKey(f)])}} :
           f \in {"service", "region", "endpoint_url", "bucket"}}

CredentialScenarios ==
    UNION {{<<[BaseArgv EXCEPT ![f] = x],
              [EmptyConfig EXCEPT ![f] = y],
              [EmptyEnviron EXCEPT ![EnvKey(f)] = z]>> :
                x \in {Nothing, Some(CliValue[f])},
                y \in {Nothing, Some(CfgValue[f])},
                z \in {Nothing, Some(EnvValue[EnvKey(f)])}} :
           f \in Credentials}

PrefixScenarios ==
    {<<[BaseArgv EXCEPT !.prefix = x], [EmptyConfig EXCEPT !.prefix = y], EmptyEnviron>> :
        x \in {Nothing, Some(<<>>), Some(PrefixA)},
        y \in {Nothing, Some(PrefixMissing)}}

SwitchScenarios ==
    UNION {{<<[BaseArgv EXCEPT ![f] = x], [EmptyConfig EXCEPT ![f] = y], EmptyEnviron>> :
                x \in {Nothing, Some(TRUE), Some(FALSE)},
                y \in {Nothing, Some(TRUE), Some(FALSE)}} :
           f \in {"recursive", "animated_progress"}}

Scenarios ==
    StringScenarios \cup CredentialScenarios \cup PrefixScenarios \cup SwitchScenarios

\* The bucket main works on.
MainStore == {KeyDir, KeyAX, KeyZ}

InitMain ==
    /\ \E sc \in Scenarios, d \in BOOLEAN, l \in BOOLEAN, cc \in BOOLEAN :
           /\ argv = [sc[1] EXCEPT !.dry_run = d, !.list_buckets = l,
                                   !.create_config = cc]
           /\ config = sc[2]
           /\ environ = sc[3]
    /\ eff = NoEff
    /\ mgr = NoManager
    /\ url = NoUrl
    /\ bucket_calls = <<>>
    /\ ref = NoRef
    /\ store = MainStore
    /\ page_size = MaxPageSize
    /\ prefix = <<>>
    /\ recursive = TRUE
    /\ dry_run = FALSE
    /\ has_display = FALSE
    /\ pc = "main"
    /\ Blank

\* `if args.create_config: create_sample_config(); return`
MainCreateConfig ==
    /\ pc = "main"
    /\ Args(argv).create_config
    /\ exit_status' = 0
    /\ pc' = "exited"
    /\ UNCHANGED <<result, returned, raised, interrupted>>
    /\ UNCHANGED <<setup, inputs, listing, locals, counters, history, display, render>>

\* The nine assignments service = ... to animated_progress = ...
MainResolve ==
    /\ pc = "main"
    /\ ~Args(argv).create_config
    /\ eff' = Resolve(Args(argv), config, environ)
    /\ pc' = "validate"
    /\ UNCHANGED <<argv, config, environ, mgr, url, bucket_calls, ref>>
    /\ UNCHANGED <<inputs, listing, locals, counters, outcome, history, display, render>>

\* Mutant of MainValidate: the required parameters are not checked.
MainValidateSkipped ==
    /\ pc = "validate"
    /\ pc' = "construct"
    /\ UNCHANGED <<setup, inputs, listing, locals, counters, outcome, history, display, render>>

\* `if not all([service, region, access_key, secret_key]): ... sys.exit(1)`
MainValidate ==
    /\ pc = "validate"
    /\ IF AllRequired(eff)
       THEN /\ pc' = "construct"
            /\ UNCHANGED exit_status
       ELSE /\ exit_status' = 1
            /\ pc' = "exited"
    /\ UNCHANGED <<result, returned, raised, interrupted>>
    /\ UNCHANGED <<setup, inputs, listing, locals, counters, history, display, render>>

\* progress_display = ProgressDisplay() or None; manager = S3PublicManager(...)
MainConstruct ==
    /\ pc = "construct"
    /\ has_display' = eff.animated_progress
    /\ mgr' = NewManager(eff.service.val, eff.region.val, eff.endpoint_url)
    /\ pc' = "dispatch"
    /\ UNCHANGED <<argv, config, environ, eff, url, bucket_calls, ref>>
    /\ UNCHANGED <<store, prefix, recursive, dry_run, page_size>>
    /\ UNCHANGED <<listing, locals, counters, outcome, history, display, render>>

\* `if args.list_buckets: buckets = manager.list_buckets(); ...; return`:
\* one list_buckets request; a ClientError is caught by list_buckets, any
\* other exception reaches main's `except Exception`.
MainListBuckets(o) ==
    /\ pc = "dispatch"
    /\ Args(argv).list_buckets
    /\ bucket_calls' = Append(bucket_calls, o)
    /\ IF o = "OtherError"
       THEN /\ raised' = TRUE
            /\ pc' = "raised"
            /\ UNCHANGED exit_status
       ELSE /\ exit_status' = 0
            /\ pc' = "exited"
            /\ UNCHANGED raised
    /\ UNCHANGED <<argv, config, environ, eff, mgr, url, ref>>
    /\ UNCHANGED <<result, returned, interrupted>>
    /\ UNCHANGED <<inputs, listing, locals, counters, history, display, render>>

\* `if not bucket_name: ... sys.exit(1)`, then
\* manager.make_objects_public(bucket_name, prefix, args.dry_run, recursive)
\* is entered.  SystemExit is no Exception: the handlers of main let it pass.
MainCall ==
    /\ pc = "dispatch"
    /\ ~Args(argv).list_buckets
    /\ IF Truthy(eff.bucket_name)
       THEN /\ prefix' = eff.prefix.val
            /\ dry_run' = Args(argv).dry_run
            /\ recursive' = eff.recursive
            /\ pc' = "start"
            /\ UNCHANGED exit_status
       ELSE /\ exit_status' = 1
            /\ pc' = "exited"
            /\ UNCHANGED <<prefix, dry_run, recursive>>
    /\ UNCHANGED <<store, page_size, has_display>>
    /\ UNCHANGED <<result, returned, raised, interrupted>>
    /\ UNCHANGED <<setup, listing, locals, counters, history, display, render>>

NextMain ==
    \/ MainCreateConfig
    \/ MainResolve
    \/ MainValidate
    \/ MainConstruct
    \/ \E o \in Outcomes : MainListBuckets(o)
    \/ MainCall
    \/ Next

SpecMain == InitMain /\ [][NextMain]_vars

\* start() has been called at least once.
StartCalled == \E n \in DOMAIN pd_events : pd_events[n] = "start"

\* C11: once start(total) has been called, whatever update calls follow, the
\* display's processed count is at most its total count.
C11_ProcessedWithinTotal ==
    StartCalled => pd.processed_files <= pd.total_files

\* get_public_url has been called on the manager.
UrlAsked == pc = "url_ready" /\ url # NoUrl

\* No request of any kind has been sent to the storage service.
NoStorageOperation ==
    /\ bucket_calls = <<>>
    /\ list_calls = <<>>
    /\ requests = <<>>
    /\ acl_calls = <<>>

\* C15: get_public_url returns https://{bucket}.s3.amazonaws.com/{key} for
\* service 'aws', whatever the region and the endpoint, and
\* https://{bucket}.{region}.digitaloceanspaces.com/{key} for 'digitalocean';
\* (aws, us-east-1, bucket1, k.txt) gives https://bucket1.s3.amazonaws.com/k.txt
\* and (digitalocean, fra1, bucket1, k.txt) gives
\* https://bucket1.fra1.digitaloceanspaces.com/k.txt.
C15_PresetUrls ==
    UrlAsked =>
        /\ mgr.service = <<"aws">> =>
               url.value = Text(<<"https://">> \o url.bucket_name
                                \o <<".s3.amazonaws.com/">> \o url.object_key)
        /\ mgr.service = <<"digitalocean">> =>
               url.value = Text(<<"https://">> \o url.bucket_name \o <<".">> \o mgr.region
                                \o <<".digitaloceanspaces.com/">> \o url.object_key)
        /\ (/\ mgr.service = <<"aws">>
            /\ mgr.region = <<"us-east-1">>
            /\ url.bucket_name = <<"bucket1">>
            /\ url.object_key = <<"k.txt">>) =>
               url.value = "https://bucket1.s3.amazonaws.com/k.txt"
        /\ (/\ mgr.service = <<"digitalocean">>
            /\ mgr.region = <<"fra1">>
            /\ url.bucket_name = <<"bucket1">>
            /\ url.object_key = <<"k.txt">>) =>
               url.value = "https://bucket1.fra1.digitaloceanspaces.com/k.txt"

C15_Witness ==
    /\ UrlAsked
    /\ mgr.service = <<"aws">>
    /\ mgr.region = <<"fra1">>
    /\ Truthy(mgr.endpoint_url)
    /\ url.value = "https://b2.s3.amazonaws.com/a/x"

\* An endpoint without its scheme.
WithoutScheme(e) ==
    IF e # <<>> /\ Head(e) \in {"https://", "http://"} THEN Tail(e) ELSE e

\* C16: for a service outside the presets get_public_url returns
\* https://{bucket}.{host}/{key}, host being the resolved endpoint without
\* its scheme, when an endpoint is resolved, and
\* https://{bucket}.s3.{region}.amazonaws.com/{key} when there is none; the
\* call sends nothing to the storage service.
C16_GenericUrls ==
    UrlAsked =>
        /\ mgr.service \notin ServiceNames =>
               IF Truthy(mgr.endpoint_url)
               THEN url.value = Text(<<"https://">> \o url.bucket_name \o <<".">>
                                     \o WithoutScheme(mgr.endpoint_url.val)
                                     \o <<"/">> \o url.object_key)
               ELSE url.value = Text(<<"https://">> \o url.bucket_name \o <<".s3.">>
                                     \o mgr.region \o <<".amazonaws.com/">>
                                     \o url.object_key)
        /\ NoStorageOperation

C16_Witness ==
    /\ UrlAsked
    /\ mgr.service = <<"custom">>
    /\ mgr.endpoint_url = Some(<<"http://", "10.0.0.1:9000">>)
    /\ url.value = "https://bucket1.10.0.0.1:9000/k.txt"

\* The first of two sources that is given at all.
First(a, b) == IF a.some THEN a ELSE b

\* The effective values by precedence: the flag when given, else the
\* configuration key when present, else (credentials) the environment
\* variable, else the default.
Expected ==
    [service |-> First(argv.service, config.service),
     region |-> First(argv.region, config.region),
     access_key |-> First(argv.access_key,
                          First(config.access_key, environ.AWS_ACCESS_KEY_ID)),
     secret_key |-> First(argv.secret_key,
                          First(config.secret_key, environ.AWS_SECRET_ACCESS_KEY)),
     endpoint_url |-> First(argv.endpoint_url, config.endpoint_url),
     bucket_name |-> First(argv.bucket, config.bucket_name),
     prefix |-> First(argv.prefix, First(config.prefix, Some(<<>>))),
     recursive |-> First(argv.recursive, First(config.recursive, Some(TRUE))).val,
     animated_progress |->
         First(argv.animated_progress,
               First(config.animated_progress, Some(TRUE))).val]

\* main has resolved its parameters.
Resolved == pc # "main" /\ ~argv.create_config

\* C13: every parameter's effective value is the flag's when the flag is
\* given, else the configuration file's when present, else (credentials) the
\* environment variable's, else the default; also for recursive and
\* animated_progress set to false in the file with no flag given, and for a
\* prefix given as '' on the command line.
C13_Precedence == Resolved => eff = Expected

\* A source gives the parameter a non-empty value.
Provided(flag) ==
    \/ Truthy(argv[flag])
    \/ Truthy(config[ConfigKey(flag)])
    \/ flag \in Credentials /\ Truthy(environ[EnvKey(flag)])

MissingRequired ==
    /\ ~argv.create_config
    /\ \/ \E flag \in {"service", "region", "access_key", "secret_key"} : ~Provided(flag)
       \/ ~argv.list_buckets /\ ~Provided("bucket")

\* C14: when service, region, access key or secret key is missing, or the
\* bucket name while buckets are not being listed, main never gets to
\* make_objects_public, no list_buckets, listing or ACL request is ever sent,
\* and the process exits with status 1.  (--create-config asks for no
\* parameter: it writes the sample file and returns.)
C14_MissingParameterExits ==
    MissingRequired =>
        /\ NoStorageOperation
        /\ pc \in {"main", "validate", "construct", "dispatch", "interrupted", "exited"}
        /\ pc = "exited" => exit_status = 1
        /\ exit_status \in {-1, 1}

C14_Witness ==
    /\ pc = "exited"
    /\ exit_status = 1
    /\ ~interrupted
    /\ ~argv.create_config
    /\ ~argv.list_buckets
    /\ ~Provided("bucket")
    /\ AllRequired(eff)
    /\ mgr # NoManager

\* C21: in a run with a display, processed_files never exceeds total_files,
\* neither in the display nor in the values a frame has read, so the bar fill
\* is within 0..30 cells and the count of files left is never negative; and
\* when stop() is called processed_files equals total_files.
C21_ProcessedWithinTotal ==
    has_display =>
        /\ pd.processed_files <= pd.total_files
        /\ frame.processed <= frame.total
        /\ Remaining(pd.processed_files, pd.total_files) >= 0
        /\ Remaining(frame.processed, frame.total) >= 0
        /\ pd.total_files > 0 =>
               FilledLength(pd.processed_files, pd.total_files) \in 0..BarCells
        /\ frame.total > 0 =>
               FilledLength(frame.processed, frame.total) \in 0..BarCells
        /\ (pc = "pd_stop" \/ StopCalled) =>
               /\ pd.processed_files = pd.total_files
               /\ pd.total_files = Len(file_objects)

C21_Witness ==
    /\ has_display
    /\ ~dry_run
    /\ StopCalled
    /\ pd.total_files = 3
    /\ pd.processed_files = 3
    /\ frame.total = 3
    /\ frame.processed = 2

\* C22: in a dry run with a display every file_objects entry gets one update
\* marked successful and none marked failed: failed_count stays 0, when
\* stop() is called processed = success = total, and the result returned
\* has success 0.
C22_DryRunDisplayCounts ==
    (dry_run /\ has_display) =>
        /\ pd.failed_count = 0
        /\ pd.success_count <= pd.processed_files
        /\ pd.processed_files = Len(update_keys)
        /\ (pc = "pd_stop" \/ StopCalled) =>
               /\ update_keys = file_objects
               /\ pd.processed_files = pd.total_files
               /\ pd.success_count = pd.total_files
               /\ pd.total_files = Len(file_objects)
        /\ returned =>
               /\ result = [success |-> 0, failed |-> 0, total |-> Len(file_objects)]
               /\ acl_calls = <<>>

C22_Witness ==
    /\ dry_run
    /\ has_display
    /\ returned
    /\ StopCalled
    /\ pd.success_count = 3
    /\ pd.processed_files = 3
    /\ result.success = 0
    /\ result.total = 3

\* C27: in a run that is no dry run one pacing delay follows every
\* put_object_acl request before the next object is taken: when the k-th
\* request is sent k - 1 delays have been taken, whatever the earlier
\* requests came to, and requests are sent one at a time by the loop.
C27_OnePaceAfterEachCall ==
    /\ sleeps \in {Len(acl_calls) - 1, Len(acl_calls)}
    /\ sleeps <= Len(acl_calls)
    /\ pc \in {"loop", "update", "update_count", "acl", "pd_stop", "pd_join",
               "pd_summary", "returned"} => sleeps = Len(acl_calls)
    /\ pc \in {"account", "fix_success", "fix_failed", "sleep"} =>
           sleeps = Len(acl_calls) - 1
    /\ dry_run => (sleeps = 0 /\ acl_calls = <<>>)
    /\ Len(acl_calls) <= idx

C27_Witness ==
    /\ ~dry_run
    /\ returned
    /\ sleeps = 3
    /\ Len(acl_calls) = 3
    /\ acl_calls[1].Outcome = "ClientError"
    /\ acl_calls[2].Outcome = "ok"

\* A page after the first of the first listing has failed.
LaterPageFailed ==
    \E n \in DOMAIN requests :
        /\ requests[n].Call = 1
        /\ requests[n].Page > 1
        /\ requests[n].Outcome # "ok"

\* C23: when a page after the first of the listing fails, list_objects
\* returns the empty list, dropping the objects of the pages before;
\* make_objects_public then makes the diagnostic listing and returns
\* {success: 0, failed: 0, total: 0} with no put_object_acl request sent.
C23_ListingAllOrNothing ==
    LaterPageFailed =>
        /\ ~raised
        /\ Len(list_returns) >= 1 => list_returns[1] = <<>>
        /\ Len(list_calls) <= 2
        /\ acl_calls = <<>>
        /\ returned => result = EmptyResult
        /\ (pc \in {"returned", "exited"} /\ ~interrupted) =>
               (returned /\ Len(list_calls) = 2)

\* start() has been called and stop() has not been called since.
Running ==
    \E n \in DOMAIN pd_events :
        /\ pd_events[n] = "start"
        /\ \A k \in (n + 1)..Len(pd_events) : pd_events[k] # "stop"

\* C24: for any sequence of calls that begins with start(), between a start()
\* and the next stop() the animation loop of that start() is running, also
\* when the start() comes after an earlier stop().
C24_RenderingUntilStop ==
    (pd_events # <<>> /\ pd_events[1] = "start" /\ Running) => ThreadAlive(rpc)

\* make_objects_public has returned after stop(): the animation loop has
\* exited, the join is over and the summary was printed once.
ReturnedAfterStop ==
    (returned /\ pd_events # <<>>) =>
        /\ StopCalled
        /\ ~pd.is_running
        /\ rpc = "exited"
        /\ summary_count = 1

\* C25: with both threads scheduled fairly, a run in which no storage call
\* raises and the user does not interrupt ends: make_objects_public returns
\* its result, and when it does after a stop() the animation loop has
\* exited, the join has returned and the summary has been printed.
C25_PublishTerminates ==
    /\ <>(returned \/ raised \/ interrupted)
    /\ []ReturnedAfterStop

C25_Witness ==
    /\ has_display
    /\ ~dry_run
    /\ returned
    /\ StopCalled
    /\ rpc = "exited"
    /\ summary_count = 1
    /\ frames >= 1
    /\ result.total = 3

\* s is an initial part of t.
IsPrefix(s, t) == Len(s) <= Len(t) /\ SubSeq(t, 1, Len(s)) = s

\* Two request histories agree on what the storage answered, as far as both go.
SameOutcomes(s, t) ==
    \A n \in 1..(IF Len(s) <= Len(t) THEN Len(s) ELSE Len(t)) :
        s[n].Outcome = t[n].Outcome

\* C26: a display changes nothing in publishing: when the storage answers
\* the call with a display as it answered the call without one, the call
\* with a display sends no request the other did not, and once it is over it
\* has made the same list_objects calls, page requests, put_object_acl
\* requests and pacing delays and returned the same result (or raised alike).
C26_DisplayChangesNothing ==
    (/\ ref.done
     /\ SameOutcomes(requests, ref.requests)
     /\ SameOutcomes(acl_calls, ref.acl_calls)) =>
        /\ IsPrefix(list_calls, ref.list_calls)
        /\ IsPrefix(requests, ref.requests)
        /\ IsPrefix(acl_calls, ref.acl_calls)
        /\ sleeps <= ref.sleeps
        /\ pc \in {"returned", "raised"} =>
               /\ list_calls = ref.list_calls
               /\ requests = ref.requests
               /\ acl_calls = ref.acl_calls
               /\ sleeps = ref.sleeps
               /\ result = ref.result
               /\ returned = ref.returned
               /\ raised = ref.raised

C26_Witness ==
    /\ ref.done
    /\ has_display
    /\ pc = "returned"
    /\ StopCalled
    /\ acl_calls = ref.acl_calls
    /\ Len(acl_calls) = 3
    /\ acl_calls[2].Outcome = "ClientError"
    /\ result = ref.result
    /\ result.failed = 1

====
